---- MODULE Spec2Model ----
(***************************************************************************)
(* Model of the in-memory PubSub broker of main.go: the client registry    *)
(* (ps.Clients), the subscription list (ps.Subscriptions), the engine      *)
(* mutex (ps.mu), one receive-loop worker per websocket connection, and    *)
(* the transport as a per-connection state that decides whether a read or  *)
(* a write on that connection succeeds.                                    *)
(***************************************************************************)
EXTENDS Integers, Sequences, FiniteSets, TLC

\* Bounds of the model.
MaxClients == 2
NumTopics == 2
NumBodies == 2
\* Bounds of the interleaved specification: frames handled per worker, and
\* direct engine calls (RemoveClient, broadcast).
MaxFrames == 2
MaxAdminOps == 1

ClientIds == 1..MaxClients
Topics == 1..NumTopics
Bodies == 1..NumBodies

\* The three actions of the protocol (main.go:46-50).
PUBLISH == "publish"
SUBSCRIBE == "subscribe"
UNSUBSCRIBE == "unsubscribe"

VARIABLES
    Clients,        \* ps.Clients: sequence of client ids
    Subscriptions,  \* ps.Subscriptions: sequence of [Topic, Client]
    locked,         \* ps.mu is held
    conn,           \* per connection: "none", "open", "wbroken", "closed"
    pc,             \* per worker: "idle", "reading", "blocked", "exited"
    last,           \* the last engine/worker operation and what it wrote
    local           \* per goroutine: the locals of the call in progress
                    \* (used by the interleaved specification only)

vars == <<Clients, Subscriptions, locked, conn, pc, last, local>>

Range(s) == {s[k] : k \in 1..Len(s)}

----------------------------------------------------------------------------
\* Payloads written to a connection.
HiFrame == [kind |-> "hi", arg |-> 0]
WelcomeFrame(id) == [kind |-> "welcome", arg |-> id]
AckFrame == [kind |-> "ack", arg |-> 0]
DataFrame(m) == [kind |-> "data", arg |-> m]
\* "This is a Broadcast message sent by the Server! HELLO Clients!"
BroadcastNotice == [kind |-> "notice", arg |-> 0]

\* Inbound frames a peer can send: one that json.Unmarshal rejects, and the
\* envelopes {action, topic, message}.
BadFrame == [valid |-> FALSE, action |-> "", topic |-> 0, message |-> 0]
Envelope(a, t, m) == [valid |-> TRUE, action |-> a, topic |-> t, message |-> m]
Frames ==
    {BadFrame}
    \cup {Envelope(PUBLISH, t, m) : t \in Topics, m \in Bodies}
    \cup {Envelope(a, t, 0) : a \in {SUBSCRIBE, UNSUBSCRIBE, "other"}, t \in Topics}

\* websocket.Conn.WriteMessage on c's connection: the write and whether it
\* returned nil.  A write succeeds only on an open connection.
WriteMessage(c, payload) == [to |-> c, payload |-> payload, ok |-> conn[c] = "open"]

\* websocket.Conn.ReadMessage returns a frame unless the connection is closed.
ReadOk(c) == conn[c] \in {"open", "wbroken"}

----------------------------------------------------------------------------
\* The loop  for index, x := range s { if match(x) { s = append(s[:index],
\* s[index+1:]...) } }  of RemoveClient and Unsubscribe.  The range clause
\* fixes the backing array B and its length Len(B) once; every deletion
\* shifts B in place and shortens the live slice to len, and the loop goes on
\* reading B[i] up to the original length.  s[index+1:] panics when
\* index+1 > len(s).  i is the 1-based position (index+1), M the set of
\* matching elements.
ShiftLeft(B, len, i) ==
    [k \in 1..Len(B) |-> IF k >= i /\ k < len THEN B[k + 1] ELSE B[k]]

\* Mutant: the deletion written append(s[:index+1], s[index+1:]...), which
\* deletes nothing.
RangeDeleteOffByOne(B, len, i, M) ==
    [panicked |-> FALSE, slice |-> SubSeq(B, 1, len)]

RECURSIVE RangeDelete(_, _, _, _)
RangeDelete(B, len, i, M) ==
    IF i > Len(B) THEN [panicked |-> FALSE, slice |-> SubSeq(B, 1, len)]
    ELSE IF B[i] \in M
         THEN IF i > len
              THEN [panicked |-> TRUE, slice |-> SubSeq(B, 1, len)]
              ELSE RangeDelete(ShiftLeft(B, len, i), len - 1, i + 1, M)
         ELSE RangeDelete(B, len, i + 1, M)

\* Mutant: GetSubscriptions building its result back to front.
RECURSIVE Reverse(_)
Reverse(s) == IF s = <<>> THEN <<>> ELSE Reverse(Tail(s)) \o <<Head(s)>>

GetSubscriptionsReversed(topic, client) ==
    Reverse(SelectSeq(Subscriptions,
                      LAMBDA s : IF client # 0
                                 THEN s.Client = client /\ s.Topic = topic
                                 ELSE s.Topic = topic))

\* GetSubscriptions(topic, client); client = 0 stands for nil.
GetSubscriptions(topic, client) ==
    SelectSeq(Subscriptions,
              LAMBDA s : IF client # 0
                         THEN s.Client = client /\ s.Topic = topic
                         ELSE s.Topic = topic)

\* Mutant: Subscribe without the lookup that makes it idempotent.
SubscribeNoCheck(client, topic) ==
    Append(Subscriptions, [Topic |-> topic, Client |-> client])

\* Subscribe(client, topic): the subscription list afterwards.
Subscribe(client, topic) ==
    IF Len(GetSubscriptions(topic, client)) > 0
    THEN Subscriptions
    ELSE Append(Subscriptions, [Topic |-> topic, Client |-> client])

\* Mutant: Unsubscribe matching on the client id alone.
UnsubscribeAnyTopic(client, topic) ==
    RangeDelete(Subscriptions, Len(Subscriptions), 1,
                {s \in Range(Subscriptions) : s.Client = client})

\* Mutant: the deletion loop of Unsubscribe started one element late.
UnsubscribeSkipFirst(client, topic) ==
    RangeDelete(Subscriptions, Len(Subscriptions), 2,
                {s \in Range(Subscriptions) : s.Client = client /\ s.Topic = topic})

\* Unsubscribe(client, topic): the result of its deletion loop.
Unsubscribe(client, topic) ==
    RangeDelete(Subscriptions, Len(Subscriptions), 1,
                {s \in Range(Subscriptions) : s.Client = client /\ s.Topic = topic})

\* Mutant: Publish's loop returning at the first Send that fails.
RECURSIVE PublishSendsAbortOnError(_, _)
PublishSendsAbortOnError(subs, message) ==
    IF subs = <<>> THEN <<>>
    ELSE LET w == WriteMessage(Head(subs).Client, DataFrame(message))
         IN IF w.ok THEN <<w>> \o PublishSendsAbortOnError(Tail(subs), message)
            ELSE <<w>>

\* Publish's loop over the looked-up subscriptions: one Send per entry, the
\* error Send returns is dropped.
RECURSIVE PublishSends(_, _)
PublishSends(subs, message) ==
    IF subs = <<>> THEN <<>>
    ELSE <<WriteMessage(Head(subs).Client, DataFrame(message))>>
         \o PublishSends(Tail(subs), message)

\* Mutant: Publish without the topic lookup.
PublishIgnoringTopic(topic, message) == PublishSends(Subscriptions, message)

\* Publish(topic, message, nil): the writes it makes.
Publish(topic, message) == PublishSends(GetSubscriptions(topic, 0), message)

\* broadcast's loop over ps.Clients, run with ps.mu held: a failed write
\* calls RemoveClient, whose ps.mu.Lock() never returns because sync.Mutex
\* is not reentrant.
RECURSIVE BroadcastSends(_, _)
BroadcastSends(cls, message) ==
    IF cls = <<>> THEN [sends |-> <<>>, stuck |-> FALSE]
    ELSE LET w == WriteMessage(Head(cls), DataFrame(message))
         IN IF ~w.ok
            THEN [sends |-> <<w>>, stuck |-> TRUE]
            ELSE LET r == BroadcastSends(Tail(cls), message)
                 IN [sends |-> <<w>> \o r.sends, stuck |-> r.stuck]

----------------------------------------------------------------------------
NoFrame == BadFrame

\* The goroutines: one worker per client, and the caller of the engine's
\* methods that no worker calls (RemoveClient, broadcast).
Admin == 0
Procs == ClientIds \cup {Admin}

\* The locals of a goroutine: the frame (or call argument) in hand, the slice
\* it has read, the write it is in the middle of (<<>> if none), and how
\* many frames (or calls) it has finished.
NoLocal == [frame |-> NoFrame, snap |-> <<>>, w |-> <<>>, done |-> 0]

\* The record of an operation: which one, for which client, the frame it
\* handled, the writes it made in order, how it ended, and the 1-based
\* position of the first subscription entry its deletion loop matched (0 if
\* none).  fresh is set on a RemoveClient that is the first operation after
\* the AddClient of the same client.
Op(op, c, frame, sends, outcome, hit) ==
    [op |-> op, client |-> c, frame |-> frame, sends |-> sends,
     outcome |-> outcome, hit |-> hit, fresh |-> FALSE]

FirstIndex(s, M) ==
    IF \E k \in 1..Len(s) : s[k] \in M
    THEN CHOOSE k \in 1..Len(s) : s[k] \in M /\ \A j \in 1..(k - 1) : s[j] \notin M
    ELSE 0

Init ==
    /\ Clients = <<>>
    /\ Subscriptions = <<>>
    /\ locked = FALSE
    /\ conn = [c \in ClientIds |-> "none"]
    /\ pc = [c \in ClientIds |-> "idle"]
    /\ last = Op("init", 0, NoFrame, <<>>, "ok", 0)
    /\ local = [p \in Procs |-> NoLocal]

\* autoId: a fresh id (ids are handed out in order and never reused).
autoId == CHOOSE c \in ClientIds : pc[c] = "idle" /\ \A d \in ClientIds : pc[d] = "idle" => c <= d

\* webSocketHandler up to the receive loop: upgrade, "Hi Client!", AddClient
\* (append to ps.Clients and the welcome write, under ps.mu).
Connect ==
    /\ \E c \in ClientIds : pc[c] = "idle"
    /\ LET c == autoId
           open == [conn EXCEPT ![c] = "open"]
           hi == [to |-> c, payload |-> HiFrame, ok |-> TRUE]
           welcome == [to |-> c, payload |-> WelcomeFrame(c), ok |-> TRUE]
       IN /\ conn' = open
          /\ IF locked
             THEN /\ pc' = [pc EXCEPT ![c] = "blocked"]
                  /\ Clients' = Clients
                  /\ last' = Op("connect", c, NoFrame, <<hi>>, "blocked", 0)
             ELSE /\ pc' = [pc EXCEPT ![c] = "reading"]
                  /\ Clients' = Append(Clients, c)
                  /\ last' = Op("connect", c, NoFrame, <<hi, welcome>>, "ok", 0)
    /\ UNCHANGED <<Subscriptions, locked, local>>

\* Mutant: the default case of the action switch handled as a subscribe.
HandleRecvdMessageDefaultSubscribes(c, frame) ==
    LET none == [subs |-> Subscriptions, sends |-> <<>>, panicked |-> FALSE, hit |-> 0]
    IN IF ~frame.valid THEN none
       ELSE IF frame.action = PUBLISH
       THEN [none EXCEPT !.sends = Publish(frame.topic, frame.message)]
       ELSE IF frame.action = UNSUBSCRIBE
       THEN [none EXCEPT !.subs = Unsubscribe(c, frame.topic).slice]
       ELSE [none EXCEPT !.subs = Subscribe(c, frame.topic)]

\* HandleRecvdMessage(client, messageType, payload): the subscription list
\* afterwards, the writes it made, and whether it panicked.
HandleRecvdMessage(c, frame) ==
    LET none == [subs |-> Subscriptions, sends |-> <<>>, panicked |-> FALSE, hit |-> 0]
    IN IF ~frame.valid
       THEN none
       ELSE CASE frame.action = PUBLISH ->
                   [none EXCEPT !.sends = Publish(frame.topic, frame.message)]
              [] frame.action = SUBSCRIBE ->
                   [none EXCEPT !.subs = Subscribe(c, frame.topic)]
              [] frame.action = UNSUBSCRIBE ->
                   LET r == Unsubscribe(c, frame.topic)
                   IN [subs |-> r.slice, sends |-> <<>>, panicked |-> r.panicked,
                       hit |-> FirstIndex(Subscriptions,
                                          {[Topic |-> frame.topic, Client |-> c]})]
              [] OTHER -> none

\* Mutant: the receive loop dispatching before it acknowledges.
RecvFrameAckAfterDispatch(c, frame) ==
    /\ pc[c] = "reading"
    /\ ReadOk(c)
    /\ LET ack == WriteMessage(c, AckFrame)
           h == HandleRecvdMessage(c, frame)
       IN /\ Subscriptions' = h.subs
          /\ pc' = [pc EXCEPT ![c] = IF ack.ok THEN "reading" ELSE "exited"]
          /\ last' = Op("frame", c, frame, h.sends \o <<ack>>,
                        IF ack.ok THEN "ok" ELSE "ackfail", h.hit)
    /\ UNCHANGED <<Clients, locked, conn, local>>

\* One iteration of the receive loop with a successful read: acknowledge,
\* then dispatch; a failed acknowledgement ends the worker.
RecvFrame(c, frame) ==
    /\ pc[c] = "reading"
    /\ ReadOk(c)
    /\ LET ack == WriteMessage(c, AckFrame)
       IN IF ~ack.ok
          THEN /\ pc' = [pc EXCEPT ![c] = "exited"]
               /\ last' = Op("frame", c, frame, <<ack>>, "ackfail", 0)
               /\ UNCHANGED Subscriptions
          ELSE LET h == HandleRecvdMessage(c, frame)
               IN /\ Subscriptions' = h.subs
                  /\ pc' = [pc EXCEPT ![c] = IF h.panicked THEN "exited" ELSE "reading"]
                  /\ last' = Op("frame", c, frame, <<ack>> \o h.sends,
                                IF h.panicked THEN "panic" ELSE "ok", h.hit)
    /\ UNCHANGED <<Clients, locked, conn, local>>

\* The receive loop when ReadMessage returns an error: log and return.
RecvError(c) ==
    /\ pc[c] = "reading"
    /\ ~ReadOk(c)
    /\ pc' = [pc EXCEPT ![c] = "exited"]
    /\ last' = Op("readerr", c, NoFrame, <<>>, "ok", 0)
    /\ UNCHANGED <<Clients, Subscriptions, locked, conn, local>>

\* RemoveClient(client), called on the engine directly.
RemoveClient(c) ==
    /\ pc[c] # "idle"
    /\ ~locked
    /\ LET r1 == RangeDelete(Subscriptions, Len(Subscriptions), 1,
                             {s \in Range(Subscriptions) : s.Client = c})
           r2 == RangeDelete(Clients, Len(Clients), 1, {c})
       IN /\ Subscriptions' = r1.slice
          /\ Clients' = IF r1.panicked THEN Clients ELSE r2.slice
          /\ last' = [Op("remove", c, NoFrame, <<>>,
                         IF r1.panicked \/ r2.panicked THEN "panic" ELSE "ok",
                         FirstIndex(Subscriptions,
                                    {s \in Range(Subscriptions) : s.Client = c}))
                      EXCEPT !.fresh = last.op = "connect" /\ last.client = c]
    /\ UNCHANGED <<locked, conn, pc, local>>

\* broadcast(message), called on the engine directly.
Broadcast(m) ==
    /\ ~locked
    /\ Clients # <<>>
    /\ LET r == BroadcastSends(Clients, m)
       IN /\ locked' = r.stuck
          /\ last' = Op("broadcast", 0, Envelope("", 0, m), r.sends,
                        IF r.stuck THEN "deadlock" ELSE "ok", 0)
    /\ UNCHANGED <<Clients, Subscriptions, conn, pc, local>>

\* The peer or the network: writes start failing, or the connection closes.
WriteBreak(c) ==
    /\ conn[c] = "open"
    /\ conn' = [conn EXCEPT ![c] = "wbroken"]
    /\ UNCHANGED <<Clients, Subscriptions, locked, pc, last, local>>

PeerClose(c) ==
    /\ conn[c] \in {"open", "wbroken"}
    /\ conn' = [conn EXCEPT ![c] = "closed"]
    /\ UNCHANGED <<Clients, Subscriptions, locked, pc, last, local>>

Next ==
    \/ Connect
    \/ \E c \in ClientIds, f \in Frames : RecvFrame(c, f)
    \/ \E c \in ClientIds : RecvError(c)
    \/ \E c \in ClientIds : RemoveClient(c)
    \/ \E m \in Bodies : Broadcast(m)
    \/ \E c \in ClientIds : WriteBreak(c)
    \/ \E c \in ClientIds : PeerClose(c)

Spec == Init /\ [][Next]_vars

----------------------------------------------------------------------------
\* The interleaved specification: every handler is cut at each access to
\* ps.Clients, ps.Subscriptions, ps.mu and at the start and end of each
\* write to a connection, and the goroutines take their steps in any order.
\* A slice is read and written as a whole value; connections stay open.

ConcTopic == CHOOSE t \in Topics : \A u \in Topics : t <= u
ConcBody == CHOOSE m \in Bodies : \A n \in Bodies : m <= n
ConcFrames ==
    {Envelope(PUBLISH, ConcTopic, ConcBody),
     Envelope(SUBSCRIBE, ConcTopic, 0),
     Envelope(UNSUBSCRIBE, ConcTopic, 0)}

ConcInit ==
    /\ Clients = <<>>
    /\ Subscriptions = <<>>
    /\ locked = FALSE
    /\ conn = [c \in ClientIds |-> "none"]
    /\ pc = [p \in Procs |-> "idle"]
    /\ last = Op("init", 0, NoFrame, <<>>, "ok", 0)
    /\ local = [p \in Procs |-> NoLocal]

Goto(p, label) == pc' = [pc EXCEPT ![p] = label]

\* The call in hand returns: the worker is back at ReadMessage, the admin
\* is free for its next call.  The frame stays on record as the last one
\* handled.
Return(p) ==
    /\ Goto(p, IF p = Admin THEN "idle" ELSE "reading")
    /\ local' = [local EXCEPT ![p] = [NoLocal EXCEPT !.done = local[p].done + 1,
                                                     !.frame = local[p].frame]]

\* webSocketHandler 75-91: upgrade, new client, "Hi Client!".
CConnect ==
    /\ \E c \in ClientIds : pc[c] = "idle"
    /\ conn' = [conn EXCEPT ![autoId] = "open"]
    /\ Goto(autoId, "add_lock")
    /\ UNCHANGED <<Clients, Subscriptions, locked, last, local>>

\* AddClient: ps.mu.Lock().
CAddLock(c) ==
    /\ pc[c] = "add_lock"
    /\ ~locked
    /\ locked' = TRUE
    /\ Goto(c, "add_append")
    /\ UNCHANGED <<Clients, Subscriptions, conn, last, local>>

\* Mutant: AddClient appending without holding on to the lock.
CAddAppendUnlocked(c) ==
    /\ pc[c] = "add_append"
    /\ Clients' = Append(Clients, c)
    /\ locked' = FALSE
    /\ Goto(c, "add_welcome")
    /\ UNCHANGED <<Subscriptions, conn, last, local>>

\* AddClient: ps.Clients = append(ps.Clients, client).
CAddAppend(c) ==
    /\ pc[c] = "add_append"
    /\ Clients' = Append(Clients, c)
    /\ Goto(c, "add_welcome")
    /\ UNCHANGED <<Subscriptions, locked, conn, last, local>>

\* AddClient: the deferred ps.mu.Unlock(); the worker enters its loop.
CAddUnlock(c) ==
    /\ pc[c] = "add_unlock"
    /\ locked' = FALSE
    /\ Goto(c, "reading")
    /\ UNCHANGED <<Clients, Subscriptions, conn, last, local>>

\* The receive loop: ReadMessage returns frame f.
CRead(c, f) ==
    /\ pc[c] = "reading"
    /\ local[c].done < MaxFrames
    /\ local' = [local EXCEPT ![c].frame = f]
    /\ Goto(c, "ack")
    /\ UNCHANGED <<Clients, Subscriptions, locked, conn, last>>

\* The write a goroutine makes at its position: the welcome of AddClient,
\* the acknowledgement of the receive loop, the Send of Publish to the next
\* subscription it looked up, the write of broadcast to the next client.
WritePoints == {"add_welcome", "ack", "pub_send", "bc_send"}

PendingWrite(p) ==
    CASE pc[p] = "add_welcome" -> WriteMessage(p, WelcomeFrame(p))
      [] pc[p] = "ack" -> WriteMessage(p, AckFrame)
      [] pc[p] = "pub_send" ->
            WriteMessage(Head(local[p].snap).Client, DataFrame(local[p].frame.message))
      [] pc[p] = "bc_send" ->
            WriteMessage(Head(local[p].snap), DataFrame(local[p].frame.message))

\* Connection.WriteMessage is entered.
BeginWrite(p) ==
    /\ pc[p] \in WritePoints
    /\ local[p].w = <<>>
    /\ pc[p] \in {"pub_send", "bc_send"} => local[p].snap # <<>>
    /\ local' = [local EXCEPT ![p].w = <<PendingWrite(p)>>]
    /\ UNCHANGED <<Clients, Subscriptions, locked, conn, pc, last>>

\* Connection.WriteMessage returns, and the caller goes on: AddClient to
\* its unlock, the receive loop to HandleRecvdMessage and its switch, the
\* loops of Publish and broadcast to their next element.
EndWrite(p) ==
    /\ pc[p] \in WritePoints
    /\ local[p].w # <<>>
    /\ CASE pc[p] = "add_welcome" ->
              /\ Goto(p, "add_unlock")
              /\ local' = [local EXCEPT ![p].w = <<>>]
         [] pc[p] = "ack" ->
              /\ Goto(p, CASE local[p].frame.action = PUBLISH -> "pub_lookup"
                           [] local[p].frame.action = SUBSCRIBE -> "sub_lookup"
                           [] local[p].frame.action = UNSUBSCRIBE -> "unsub_range")
              /\ local' = [local EXCEPT ![p].w = <<>>]
         [] pc[p] \in {"pub_send", "bc_send"} ->
              /\ pc' = pc
              /\ local' = [local EXCEPT ![p].w = <<>>, ![p].snap = Tail(local[p].snap)]
    /\ UNCHANGED <<Clients, Subscriptions, locked, conn, last>>

\* Publish: subscriptions := ps.GetSubscriptions(topic, nil).
CPubLookup(c) ==
    /\ pc[c] = "pub_lookup"
    /\ local' = [local EXCEPT ![c].snap = GetSubscriptions(local[c].frame.topic, 0)]
    /\ Goto(c, "pub_send")
    /\ UNCHANGED <<Clients, Subscriptions, locked, conn, last>>

\* Publish: the loop is over.
CPubDone(c) ==
    /\ pc[c] = "pub_send"
    /\ local[c].snap = <<>>
    /\ Return(c)
    /\ UNCHANGED <<Clients, Subscriptions, locked, conn, last>>

\* Subscribe: the lookup, and the early return when an entry is found.
CSubLookup(c) ==
    /\ pc[c] = "sub_lookup"
    /\ IF Len(GetSubscriptions(local[c].frame.topic, c)) > 0
       THEN Return(c)
       ELSE Goto(c, "sub_read") /\ local' = local
    /\ UNCHANGED <<Clients, Subscriptions, locked, conn, last>>

\* Subscribe: append(ps.Subscriptions, newSubscription) reads the slice ...
CSubRead(c) ==
    /\ pc[c] = "sub_read"
    /\ local' = [local EXCEPT ![c].snap = Subscriptions]
    /\ Goto(c, "sub_write")
    /\ UNCHANGED <<Clients, Subscriptions, locked, conn, last>>

\* ... and the result is stored in ps.Subscriptions.
CSubWrite(c) ==
    /\ pc[c] = "sub_write"
    /\ Subscriptions' = Append(local[c].snap, [Topic |-> local[c].frame.topic, Client |-> c])
    /\ Return(c)
    /\ UNCHANGED <<Clients, locked, conn, last>>

\* Unsubscribe: the range clause and the append expression read the slice ...
CUnsubRange(c) ==
    /\ pc[c] = "unsub_range"
    /\ IF [Topic |-> local[c].frame.topic, Client |-> c] \in Range(Subscriptions)
       THEN Goto(c, "unsub_write") /\ local' = [local EXCEPT ![c].snap = Subscriptions]
       ELSE Return(c)
    /\ UNCHANGED <<Clients, Subscriptions, locked, conn, last>>

\* ... and the shortened slice is stored in ps.Subscriptions.
CUnsubWrite(c) ==
    /\ pc[c] = "unsub_write"
    /\ Subscriptions' =
          RangeDelete(local[c].snap, Len(local[c].snap), 1,
                      {[Topic |-> local[c].frame.topic, Client |-> c]}).slice
    /\ Return(c)
    /\ UNCHANGED <<Clients, locked, conn, last>>

\* RemoveClient(c) called on the engine: ps.mu.Lock().
ARemoveLock(c) ==
    /\ pc[Admin] = "idle"
    /\ local[Admin].done < MaxAdminOps
    /\ pc[c] \notin {"idle", "add_lock"}
    /\ ~locked
    /\ locked' = TRUE
    /\ local' = [local EXCEPT ![Admin].snap = <<c>>]
    /\ Goto(Admin, "rm_subs")
    /\ UNCHANGED <<Clients, Subscriptions, conn, last>>

\* RemoveClient: the loop over ps.Subscriptions; a panic runs the deferred
\* unlock and ends the call.
ARemoveSubs ==
    /\ pc[Admin] = "rm_subs"
    /\ LET c == Head(local[Admin].snap)
           r == RangeDelete(Subscriptions, Len(Subscriptions), 1,
                            {s \in Range(Subscriptions) : s.Client = c})
       IN /\ Subscriptions' = r.slice
          /\ IF r.panicked
             THEN locked' = FALSE /\ Return(Admin)
             ELSE locked' = locked /\ Goto(Admin, "rm_clients") /\ local' = local
    /\ UNCHANGED <<Clients, conn, last>>

\* RemoveClient: the loop over ps.Clients, the deferred unlock, the return.
ARemoveClients ==
    /\ pc[Admin] = "rm_clients"
    /\ Clients' = RangeDelete(Clients, Len(Clients), 1, {Head(local[Admin].snap)}).slice
    /\ locked' = FALSE
    /\ Return(Admin)
    /\ UNCHANGED <<Subscriptions, conn, last>>

\* broadcast(m) called on the engine: ps.mu.Lock() and the range clause.
ABroadcastLock(m) ==
    /\ pc[Admin] = "idle"
    /\ local[Admin].done < MaxAdminOps
    /\ ~locked
    /\ locked' = TRUE
    /\ local' = [local EXCEPT ![Admin].snap = Clients,
                              ![Admin].frame = Envelope("", 0, m)]
    /\ Goto(Admin, "bc_send")
    /\ UNCHANGED <<Clients, Subscriptions, conn, last>>

\* broadcast: the loop is over, the deferred unlock, the return.
ABroadcastDone ==
    /\ pc[Admin] = "bc_send"
    /\ local[Admin].snap = <<>>
    /\ locked' = FALSE
    /\ Return(Admin)
    /\ UNCHANGED <<Clients, Subscriptions, conn, last>>

ConcNext ==
    \/ CConnect
    \/ \E c \in ClientIds : CAddLock(c)
    \/ \E c \in ClientIds : CAddAppend(c)
    \/ \E c \in ClientIds : CAddUnlock(c)
    \/ \E c \in ClientIds, f \in ConcFrames : CRead(c, f)
    \/ \E p \in Procs : BeginWrite(p)
    \/ \E p \in Procs : EndWrite(p)
    \/ \E c \in ClientIds : CPubLookup(c)
    \/ \E c \in ClientIds : CPubDone(c)
    \/ \E c \in ClientIds : CSubLookup(c)
    \/ \E c \in ClientIds : CSubRead(c)
    \/ \E c \in ClientIds : CSubWrite(c)
    \/ \E c \in ClientIds : CUnsubRange(c)
    \/ \E c \in ClientIds : CUnsubWrite(c)
    \/ \E c \in ClientIds : ARemoveLock(c)
    \/ ARemoveSubs
    \/ ARemoveClients
    \/ \E m \in {ConcBody} : ABroadcastLock(m)
    \/ ABroadcastDone

SpecConc == ConcInit /\ [][ConcNext]_vars

----------------------------------------------------------------------------
\* Vocabulary of the properties.

Entry(t, c) == [Topic |-> t, Client |-> c]
HasEntry(t, c) == Entry(t, c) \in Range(Subscriptions)
OwnsEntry(c) == \E s \in Range(Subscriptions) : s.Client = c
Registered(c) == c \in Range(Clients)

\* The entries for topic t, in list order, read off the list itself.
EntriesOf(t) == SelectSeq(Subscriptions, LAMBDA s : s.Topic = t)
SubscribersOf(t) == {s.Client : s \in Range(EntriesOf(t))}

\* last records a frame that was acknowledged and handed to
\* HandleRecvdMessage with action a.
Dispatched(a) ==
    /\ last.op = "frame"
    /\ last.outcome # "ackfail"
    /\ last.frame.valid
    /\ last.frame.action = a

\* The writes of the dispatch itself: everything after the acknowledgement.
DispatchSends == Tail(last.sends)

\* A step of the environment (WriteBreak, PeerClose) changes a connection and
\* nothing else; every other step is a step of the program and records
\* itself in last'.
EnvStep == conn' # conn /\ pc' = pc
FrameStep(c, frame) ==
    /\ ~EnvStep
    /\ last'.op = "frame"
    /\ last'.outcome # "ackfail"
    /\ last'.client = c
    /\ last'.frame = frame

----------------------------------------------------------------------------
\* C1: a publish of body m to topic t writes the data frame m, unmodified and
\* once, to exactly the clients that hold an entry for t, and writes no data
\* to any other client.
C1_PublishReachesExactlySubscribers ==
    Dispatched(PUBLISH) =>
        /\ last.outcome = "ok"
        /\ {w.to : w \in Range(DispatchSends)} = SubscribersOf(last.frame.topic)
        /\ Len(DispatchSends) = Cardinality(SubscribersOf(last.frame.topic))
        /\ \A w \in Range(DispatchSends) : w.payload = DataFrame(last.frame.message)

\* A publish to a topic with a subscriber, while a registered client holds no
\* entry for that topic but holds one for another topic.
C1_Witness ==
    /\ Dispatched(PUBLISH)
    /\ SubscribersOf(last.frame.topic) # {}
    /\ \E c \in Range(Clients) :
          /\ ~HasEntry(last.frame.topic, c)
          /\ OwnsEntry(c)

\* C2: the subscription list never holds two entries for one (topic, client)
\* pair, and a subscribe for a pair that is present leaves the list as it was.
NoDuplicateEntries ==
    \A i, j \in 1..Len(Subscriptions) :
        Subscriptions[i] = Subscriptions[j] => i = j

SubscribePresentIsNoOp ==
    \A c \in ClientIds, t \in Topics :
        (FrameStep(c, Envelope(SUBSCRIBE, t, 0)) /\ HasEntry(t, c))
            => Subscriptions' = Subscriptions

C2_AtMostOneEntryPerPair ==
    []NoDuplicateEntries /\ [][SubscribePresentIsNoOp]_vars

\* A subscribe whose pair sits before the end of the list: Subscribe appends,
\* so the entry was there before the call.
C2_Witness ==
    /\ Dispatched(SUBSCRIBE)
    /\ Len(Subscriptions) >= 2
    /\ \E k \in 1..(Len(Subscriptions) - 1) :
          Subscriptions[k] = Entry(last.frame.topic, last.client)

\* C3: an unsubscribe of (t, c) returns normally with no entry (t, c) left;
\* and while no entry (t, c) exists, only a subscribe of c to t creates one,
\* and a publish to t writes nothing to c.
UnsubscribeLeavesNoEntry ==
    Dispatched(UNSUBSCRIBE) =>
        /\ last.outcome = "ok"
        /\ ~HasEntry(last.frame.topic, last.client)

AbsentStaysSilent ==
    \A c \in ClientIds, t \in Topics :
        (~HasEntry(t, c) /\ ~FrameStep(c, Envelope(SUBSCRIBE, t, 0))) =>
            /\ ~HasEntry(t, c)'
            /\ \A m \in Bodies :
                  (\E p \in ClientIds : FrameStep(p, Envelope(PUBLISH, t, m))) =>
                      \A w \in Range(Tail(last'.sends)) : w.to # c

C3_UnsubscribeStopsDelivery ==
    []UnsubscribeLeavesNoEntry /\ [][AbsentStaysSilent]_vars

\* An unsubscribe that found its entry at the front of a list of at least
\* three entries, among them another client's entry for the same topic and
\* the same client's entry for another topic.
C3_Witness ==
    /\ Dispatched(UNSUBSCRIBE)
    /\ last.hit = 1
    /\ Len(Subscriptions) >= 2
    /\ \E s \in Range(Subscriptions) :
          s.Topic = last.frame.topic /\ s.Client # last.client
    /\ \E s \in Range(Subscriptions) :
          s.Topic # last.frame.topic /\ s.Client = last.client

\* C4: RemoveClient(c) returns normally, and afterwards c owns no
\* subscription entry and is not in the registry.
C4_RemoveClientPurges ==
    last.op = "remove" =>
        /\ last.outcome = "ok"
        /\ ~OwnsEntry(last.client)
        /\ ~Registered(last.client)

\* C5: a worker that left its receive loop on a read error has removed its
\* client: the client is not in the registry and owns no entry.
C5_ReadErrorRemovesClient ==
    last.op = "readerr" =>
        /\ pc[last.client] = "exited"
        /\ ~Registered(last.client)
        /\ ~OwnsEntry(last.client)

\* C6: a publish in which a write failed has still written the body to every
\* subscriber of the topic, in list order, and has returned to the receive
\* loop.
C6_PublishContinuesPastFailure ==
    (Dispatched(PUBLISH) /\ \E w \in Range(DispatchSends) : ~w.ok) =>
        /\ last.outcome = "ok"
        /\ pc[last.client] = "reading"
        /\ Len(DispatchSends) = Len(EntriesOf(last.frame.topic))
        /\ \A k \in 1..Len(DispatchSends) :
              /\ DispatchSends[k].to = EntriesOf(last.frame.topic)[k].Client
              /\ DispatchSends[k].payload = DataFrame(last.frame.message)

\* A publish whose first write failed and whose next write succeeded.
C6_Witness ==
    /\ Dispatched(PUBLISH)
    /\ Len(DispatchSends) >= 2
    /\ ~DispatchSends[1].ok
    /\ DispatchSends[2].ok

\* C7: after a publish, every subscriber the write to which failed is out of
\* the registry and owns no entry.
C7_PublishRemovesFailedSubscriber ==
    Dispatched(PUBLISH) =>
        \A w \in Range(DispatchSends) :
            ~w.ok => ~Registered(w.to) /\ ~OwnsEntry(w.to)

\* C8: a broadcast of body m writes the data frame m to every registered
\* client.
C8_BroadcastReachesRegistry ==
    last.op = "broadcast" =>
        \A c \in Range(Clients) :
            \E w \in Range(last.sends) :
                w.to = c /\ w.payload = DataFrame(last.frame.message)

\* C9: a broadcast in which a write failed has removed the failing client
\* with its entries, has written to every remaining registered client, and has
\* returned with the lock released.
C9_BroadcastSurvivesFailure ==
    (last.op = "broadcast" /\ \E w \in Range(last.sends) : ~w.ok) =>
        /\ last.outcome = "ok"
        /\ ~locked
        /\ \A w \in Range(last.sends) :
              ~w.ok => ~Registered(w.to) /\ ~OwnsEntry(w.to)
        /\ \A c \in Range(Clients) : \E w \in Range(last.sends) : w.to = c

\* C10: the dispatch of a frame that does not decode, or whose action is none
\* of publish/subscribe/unsubscribe, changes neither the registry nor the
\* subscription list nor the lock, writes nothing but the acknowledgement,
\* and leaves the worker in its receive loop.
IgnoredFrames == {f \in Frames : ~f.valid \/ f.action \notin {PUBLISH, SUBSCRIBE, UNSUBSCRIBE}}

IgnoredFrameChangesNothing ==
    \A c \in ClientIds, f \in IgnoredFrames :
        FrameStep(c, f) =>
            /\ Clients' = Clients
            /\ Subscriptions' = Subscriptions
            /\ locked' = locked
            /\ last'.sends = <<[to |-> c, payload |-> AckFrame, ok |-> TRUE]>>
            /\ last'.outcome = "ok"
            /\ pc'[c] = "reading"

AddClientAppends ==
    (~EnvStep /\ last'.op = "connect" /\ last'.outcome = "ok") =>
        /\ Clients' = Append(Clients, last'.client)
        /\ Subscriptions' = Subscriptions

RemoveUndoesAdd ==
    \A c \in ClientIds :
        (/\ last.op = "connect" /\ last.outcome = "ok" /\ last.client = c
         /\ ~EnvStep /\ last'.op = "remove" /\ last'.client = c) =>
            /\ last'.outcome = "ok"
            /\ Clients # <<>>
            /\ Clients' = SubSeq(Clients, 1, Len(Clients) - 1)
            /\ Subscriptions' = Subscriptions

C12_AddThenRemoveRoundTrip == [][AddClientAppends /\ RemoveUndoesAdd]_vars

\* A RemoveClient right after the AddClient of the same client, with another
\* client registered and holding entries.
C12_Witness ==
    /\ last.op = "remove"
    /\ last.fresh
    /\ Clients # <<>>
    /\ Subscriptions # <<>>

\* C13: an unsubscribe of (t, c) returns normally, leaves the registry and
\* the lock alone, and leaves the subscription list without the entry (t, c)
\* and otherwise as it was: the same entries in the same order, and the same
\* list when there was no entry (t, c).
UnsubscribeFrame ==
    \A c \in ClientIds, t \in Topics :
        FrameStep(c, Envelope(UNSUBSCRIBE, t, 0)) =>
            /\ last'.outcome = "ok"
            /\ Clients' = Clients
            /\ locked' = locked
            /\ Subscriptions' = SelectSeq(Subscriptions, LAMBDA s : s # Entry(t, c))
            /\ (~HasEntry(t, c) => Subscriptions' = Subscriptions)

C13_UnsubscribeTouchesOneEntry == [][UnsubscribeFrame]_vars

\* An unsubscribe that found its entry in second place, with an entry before
\* it and at least one after it.
C13_Witness ==
    /\ Dispatched(UNSUBSCRIBE)
    /\ last.hit = 2
    /\ Len(Subscriptions) >= 2

\* C14: the first write of every frame's handling is the acknowledgement to
\* the sender and it is the only acknowledgement; when that write fails the
\* worker ends with nothing else written and the lists untouched.
AckComesFirst ==
    last.op = "frame" =>
        /\ last.sends # <<>>
        /\ last.sends[1].to = last.client
        /\ last.sends[1].payload = AckFrame
        /\ \A k \in 2..Len(last.sends) : last.sends[k].payload # AckFrame
        /\ last.sends[1].ok <=> last.outcome # "ackfail"
        /\ last.outcome = "ackfail" => Len(last.sends) = 1 /\ pc[last.client] = "exited"

FailedAckSkipsDispatch ==
    (~EnvStep /\ last'.op = "frame" /\ ~last'.sends[1].ok) =>
        /\ Subscriptions' = Subscriptions
        /\ Clients' = Clients

C14_AckBeforeDispatch == []AckComesFirst /\ [][FailedAckSkipsDispatch]_vars

\* A publish by a subscriber of the topic: the sender is written the
\* acknowledgement and then the body it published.
C14_Witness ==
    /\ Dispatched(PUBLISH)
    /\ \E k \in 2..Len(last.sends) :
          /\ last.sends[k].to = last.client
          /\ last.sends[k].payload = DataFrame(last.frame.message)

\* C16: the handling of a received frame writes the server's broadcast
\* notice to every registered client.
C16_HandlingBroadcastsNotice ==
    (last.op = "frame" /\ last.outcome # "ackfail") =>
        \A c \in Range(Clients) :
            \E w \in Range(DispatchSends) : w.to = c /\ w.payload = BroadcastNotice

\* C17: a publish writes to the topic's subscribers in the order of their
\* entries in the list, and the list keeps insertion order: a step either
\* appends one new entry at the end or deletes entries without reordering
\* the rest.
PublishInListOrder ==
    Dispatched(PUBLISH) =>
        [k \in 1..Len(DispatchSends) |-> DispatchSends[k].to]
            = [k \in 1..Len(EntriesOf(last.frame.topic)) |->
                   EntriesOf(last.frame.topic)[k].Client]

ListOrderKept ==
    \/ /\ Range(Subscriptions') \subseteq Range(Subscriptions)
       /\ Subscriptions' =
              SelectSeq(Subscriptions, LAMBDA s : s \in Range(Subscriptions'))
    \/ /\ Subscriptions' # <<>>
       /\ Subscriptions'[Len(Subscriptions')] \notin Range(Subscriptions)
       /\ Subscriptions = SubSeq(Subscriptions', 1, Len(Subscriptions') - 1)

C17_SubscriberOrderIsInsertionOrder ==
    []PublishInListOrder /\ [][ListOrderKept]_vars

\* A publish written first to client 2 and then to client 1: client 2
\* subscribed first.
C17_Witness ==
    /\ Dispatched(PUBLISH)
    /\ Len(DispatchSends) = 2
    /\ DispatchSends[1].to = 2
    /\ DispatchSends[2].to = 1

----------------------------------------------------------------------------
\* Vocabulary of the properties of the interleaved specification.

\* The goroutine holds ps.mu: it is between a Lock and the deferred Unlock.
HoldsLock(p) ==
    pc[p] \in {"add_append", "add_welcome", "add_unlock", "rm_subs", "rm_clients", "bc_send"}

\* The goroutine is in the middle of changing a list: it has read the slice
\* it is about to store back, or it is between the two loops of RemoveClient.
Mutating(p) == pc[p] \in {"sub_write", "unsub_write", "rm_clients"}

\* The goroutine's step reads or writes ps.Clients or ps.Subscriptions.
ListAccessStep(q) ==
    /\ pc'[q] # pc[q]
    /\ \/ pc[q] \in {"add_append", "pub_lookup", "sub_lookup", "sub_read", "sub_write",
                     "unsub_range", "unsub_write", "rm_subs", "rm_clients"}
       \/ pc'[q] = "bc_send"

\* The write to a connection that goroutine p is in the middle of.
Writing(p) == local[p].w # <<>>
WritingTo(p, d) == Writing(p) /\ local[p].w[1].to = d
WritingData(p) == Writing(p) /\ local[p].w[1].payload.kind = "data"

\* The welcome write of d's AddClient has returned.
WelcomeDone(d) == pc[d] \notin {"idle", "add_lock", "add_append", "add_welcome"}

\* No call is in progress.
Quiescent == \A p \in Procs : pc[p] \in {"idle", "reading"}

\* C11: no goroutine reads or writes the registry or the subscription list
\* while another goroutine is in the middle of changing one of them.
NoAccessDuringMutation ==
    \A q \in Procs :
        ListAccessStep(q) => \A p \in Procs \ {q} : ~Mutating(p)

C11_ListAccessIsExclusive == [][NoAccessDuringMutation]_vars

\* C15: the welcome write of AddClient carries the client's id and is made
\* to the client under the lock, and no published or broadcast body is being
\* written to a client whose welcome write has not returned.
WelcomeCarriesId ==
    \A c \in ClientIds :
        (pc[c] = "add_welcome" /\ Writing(c)) =>
            /\ local[c].w[1].to = c
            /\ local[c].w[1].payload = WelcomeFrame(c)
            /\ locked

DataOnlyAfterWelcome ==
    \A p \in Procs :
        WritingData(p) => WelcomeDone(local[p].w[1].to)

C15_WelcomeBeforeData == WelcomeCarriesId /\ DataOnlyAfterWelcome

\* A body is being written to one client while another client's welcome
\* write is in progress.
C15_Witness ==
    \E p \in Procs, c \in ClientIds :
        /\ WritingData(p)
        /\ pc[c] = "add_welcome"
        /\ Writing(c)

\* C18: when no call is in progress every subscription entry belongs to a
\* registered client, and no Publish starts a write to a client that
\* RemoveClient has taken out of the registry.
EntriesAreRegistered ==
    Quiescent => \A s \in Range(Subscriptions) : Registered(s.Client)

NoPublishToRemoved ==
    \A p \in ClientIds :
        (pc[p] = "pub_send" /\ ~Writing(p) /\ Writing(p)') =>
            (pc[Admin] = "idle" => Registered(local'[p].w[1].to))

C18_NoEntryOutlivesItsClient ==
    []EntriesAreRegistered /\ [][NoPublishToRemoved]_vars

\* C19: when each worker has handled exactly one frame and nothing else has
\* run, the subscription list holds exactly one entry for each worker whose
\* frame was a subscribe, as it would after the frames one after the other.
C19_ConcurrentSubscribesAreKept ==
    (/\ Quiescent
     /\ local[Admin].done = 0
     /\ \A c \in ClientIds : pc[c] = "reading" /\ local[c].done = 1) =>
        /\ Range(Subscriptions) =
              {Entry(local[c].frame.topic, c) :
                   c \in {d \in ClientIds : local[d].frame.action = SUBSCRIBE}}
        /\ NoDuplicateEntries

\* C20: at most one goroutine is inside a write to a given connection.
C20_OneWriterPerConnection ==
    \A d \in ClientIds :
        Cardinality({p \in Procs : WritingTo(p, d)}) <= 1

====
